---- MODULE Spec2Model ----
(***************************************************************************)
(* Model of large-package-payload-creator: the chunk packer                *)
(* (simulatePayloads), the terminal-call selection and the object-address  *)
(* seed derivation of the `create` command.                                *)
(*                                                                         *)
(* Two entry points exist in the repository and both are modelled:         *)
(*   "commander" : src/src/commands.ts (registerCreateCommand)             *)
(*   "yargs"     : src/unnamed/part_001 (yargs command "create")           *)
(* simulatePayloads is textually the same function in both.                *)
(***************************************************************************)
EXTENDS Integers, Sequences, FiniteSets, TLC

(***************************************************************************)
(* Bounds of the model (not program constants).                            *)
(***************************************************************************)
MaxLen == 3          \* longest small Buffer drawn as an input, in bytes
MaxModules == 3      \* most modules in a small artifact bundle
MaxLimit == 4        \* largest small packing limit drawn as an input
MaxSeq == 2          \* largest sequence number the lookup returns

(***************************************************************************)
(* Buffers are sequences of bytes (0..255).                                *)
(***************************************************************************)
Buf(n, b) == [i \in 1..n |-> b]

\* Buffer.alloc(0)
EmptyBuffer == <<>>

\* the metadata blob and the i-th module (0-based) of a bundle whose blobs
\* have the given lengths; modules at different indices hold different bytes
MetadataBuf(len) == Buf(len, 77)
ModuleBuf(i, len) == Buf(len, 160 + i)

\* the worked scenario of the specification: metadata of 10 bytes, modules of
\* 50000, 50000 and 100 bytes, limit 60000
Scenario ==
    [metaLen |-> 10, moduleLens |-> <<50000, 50000, 100>>, maxSize |-> 60000]

\* the blobs of the inputs that are tens of kilobytes long
LargeBlobs ==
    {ModuleBuf(0, Scenario.moduleLens[1]), ModuleBuf(1, Scenario.moduleLens[2])}

HexDigits == <<"0", "1", "2", "3", "4", "5", "6", "7",
               "8", "9", "a", "b", "c", "d", "e", "f">>

\* two lower-case hex digits per byte, as Buffer.toString('hex') prints them
HexByte(b) == HexDigits[(b \div 16) + 1] \o HexDigits[(b % 16) + 1]

RECURSIVE HexRange(_, _, _)
HexRange(buf, lo, hi) ==
    IF lo > hi THEN ""
    ELSE IF lo = hi THEN HexByte(buf[lo])
    ELSE LET mid == (lo + hi) \div 2
         IN  HexRange(buf, lo, mid) \o HexRange(buf, mid + 1, hi)

\* the hex text of the large blobs, computed once
HexOfLarge == [buf \in LargeBlobs |-> HexRange(buf, 1, Len(buf))]

\* buf.toString('hex')
toStringHex(buf) ==
    IF buf \in LargeBlobs THEN HexOfLarge[buf] ELSE HexRange(buf, 1, Len(buf))

\* "0x" + buf.toString('hex')
HexValue(buf) == "0x" \o toStringHex(buf)

\* curChunks.map(buf => "0x" + buf.toString('hex'))
HexValues(chunks) == [k \in 1..Len(chunks) |-> HexValue(chunks[k])]

(***************************************************************************)
(* JavaScript option values: a tagged value, so that strict equality       *)
(* (===) distinguishes the boolean true from the string "true".            *)
(***************************************************************************)
JsUndefined == [t |-> "undefined", v |-> ""]
JsBool(b) == [t |-> "boolean", v |-> IF b THEN "true" ELSE "false"]
JsStr(s) == [t |-> "string", v |-> s]

\* JavaScript truthiness of an option value
Truthy(x) ==
    /\ x.t # "undefined"
    /\ ~(x.t = "string" /\ x.v = "")
    /\ ~(x.t = "boolean" /\ x.v = "false")

(***************************************************************************)
(* simulatePayloads                                                        *)
(***************************************************************************)
STAGE == "stage_code_chunk"
PUBLISH_TO_ACCOUNT == "stage_code_chunk_and_publish_to_account"
PUBLISH_TO_OBJECT == "stage_code_chunk_and_publish_to_object"
UPGRADE_OBJECT == "stage_code_chunk_and_upgrade_object_code"

TerminalFunctions == {PUBLISH_TO_ACCOUNT, PUBLISH_TO_OBJECT, UPGRADE_OBJECT}

\* `${largePackageAddress}::large_packages::<fn>`
FunctionIdOf(largePackageAddress, fn) ==
    largePackageAddress \o "::large_packages::" \o fn

\* mutant of PackBatch: records 1-based module indices
RECURSIVE PackBatch_OneBased(_, _, _)
PackBatch_OneBased(codeChunks, maxSize, s) ==
    IF s.idx < Len(codeChunks)
    THEN LET chunk == codeChunks[s.idx + 1]
         IN  IF s.curSize + Len(chunk) > maxSize
             THEN s
             ELSE PackBatch_OneBased(codeChunks, maxSize,
                            [idx |-> s.idx + 1,
                             curSize |-> s.curSize + Len(chunk),
                             curChunks |-> Append(s.curChunks, chunk),
                             codeIndices |-> Append(s.codeIndices, s.idx + 1)])
    ELSE s

\* mutant of PackBatch: compares the module alone with the limit, not the
\* running size of the batch
RECURSIVE PackBatch_IgnoresRunningSize(_, _, _)
PackBatch_IgnoresRunningSize(codeChunks, maxSize, s) ==
    IF s.idx < Len(codeChunks)
    THEN LET chunk == codeChunks[s.idx + 1]
         IN  IF Len(chunk) > maxSize
             THEN s
             ELSE PackBatch_IgnoresRunningSize(codeChunks, maxSize,
                            [idx |-> s.idx + 1,
                             curSize |-> s.curSize + Len(chunk),
                             curChunks |-> Append(s.curChunks, chunk),
                             codeIndices |-> Append(s.codeIndices, s.idx)])
    ELSE s

\* mutant of PackBatch: closes the batch after one module
RECURSIVE PackBatch_OneModulePerBatch(_, _, _)
PackBatch_OneModulePerBatch(codeChunks, maxSize, s) ==
    IF s.idx < Len(codeChunks)
    THEN LET chunk == codeChunks[s.idx + 1]
         IN  IF s.curSize + Len(chunk) > maxSize \/ s.curChunks # <<>>
             THEN s
             ELSE PackBatch_OneModulePerBatch(codeChunks, maxSize,
                            [idx |-> s.idx + 1,
                             curSize |-> s.curSize + Len(chunk),
                             curChunks |-> Append(s.curChunks, chunk),
                             codeIndices |-> Append(s.codeIndices, s.idx)])
    ELSE s

\* mutant of PackBatch: the first module of a batch is admitted whatever its size
RECURSIVE PackBatch_AdmitsFirstOfBatch(_, _, _)
PackBatch_AdmitsFirstOfBatch(codeChunks, maxSize, s) ==
    IF s.idx < Len(codeChunks)
    THEN LET chunk == codeChunks[s.idx + 1]
         IN  IF s.curSize + Len(chunk) > maxSize /\ s.curChunks # <<>>
             THEN s
             ELSE PackBatch_AdmitsFirstOfBatch(codeChunks, maxSize,
                            [idx |-> s.idx + 1,
                             curSize |-> s.curSize + Len(chunk),
                             curChunks |-> Append(s.curChunks, chunk),
                             codeIndices |-> Append(s.codeIndices, s.idx)])
    ELSE s

\* mutant of PackBatch: a batch must stay strictly below the limit
RECURSIVE PackBatch_StrictlyBelowLimit(_, _, _)
PackBatch_StrictlyBelowLimit(codeChunks, maxSize, s) ==
    IF s.idx < Len(codeChunks)
    THEN LET chunk == codeChunks[s.idx + 1]
         IN  IF s.curSize + Len(chunk) >= maxSize
             THEN s
             ELSE PackBatch_StrictlyBelowLimit(codeChunks, maxSize,
                            [idx |-> s.idx + 1,
                             curSize |-> s.curSize + Len(chunk),
                             curChunks |-> Append(s.curChunks, chunk),
                             codeIndices |-> Append(s.codeIndices, s.idx)])
    ELSE s

\* mutant of PackBatch: pushes the first module of the bundle, not the one
\* under the cursor
RECURSIVE PackBatch_PushesFirstChunk(_, _, _)
PackBatch_PushesFirstChunk(codeChunks, maxSize, s) ==
    IF s.idx < Len(codeChunks)
    THEN LET chunk == codeChunks[s.idx + 1]
         IN  IF s.curSize + Len(chunk) > maxSize
             THEN s
             ELSE PackBatch_PushesFirstChunk(codeChunks, maxSize,
                            [idx |-> s.idx + 1,
                             curSize |-> s.curSize + Len(chunk),
                             curChunks |-> Append(s.curChunks, codeChunks[1]),
                             codeIndices |-> Append(s.codeIndices, s.idx)])
    ELSE s

\* the inner for loop: admits modules from the cursor on while the running
\* size stays within maxSize; s = [idx, curSize, curChunks, codeIndices]
\* (idx is the 0-based cursor of the code)
RECURSIVE PackBatch(_, _, _)
PackBatch(codeChunks, maxSize, s) ==
    IF s.idx < Len(codeChunks)
    THEN LET chunk == codeChunks[s.idx + 1]
         IN  IF s.curSize + Len(chunk) > maxSize
             THEN s
             ELSE PackBatch(codeChunks, maxSize,
                            [idx |-> s.idx + 1,
                             curSize |-> s.curSize + Len(chunk),
                             curChunks |-> Append(s.curChunks, chunk),
                             codeIndices |-> Append(s.codeIndices, s.idx)])
    ELSE s

\* mutant of FunctionId: the account and object branches exchanged
FunctionId_BranchesSwapped(isLastCall, isObjectDeploy, largePackageAddress, isUpgrade) ==
    IF isLastCall
    THEN IF ~isObjectDeploy
         THEN IF isUpgrade
              THEN FunctionIdOf(largePackageAddress, UPGRADE_OBJECT)
              ELSE FunctionIdOf(largePackageAddress, PUBLISH_TO_OBJECT)
         ELSE FunctionIdOf(largePackageAddress, PUBLISH_TO_ACCOUNT)
    ELSE FunctionIdOf(largePackageAddress, STAGE)

\* mutant of FunctionId: the namespace is always the default address
FunctionId_DefaultAddress(isLastCall, isObjectDeploy, largePackageAddress, isUpgrade) ==
    IF isLastCall
    THEN IF isObjectDeploy
         THEN IF isUpgrade
              THEN FunctionIdOf("0x7", UPGRADE_OBJECT)
              ELSE FunctionIdOf("0x7", PUBLISH_TO_OBJECT)
         ELSE FunctionIdOf("0x7", PUBLISH_TO_ACCOUNT)
    ELSE FunctionIdOf("0x7", STAGE)

\* the function selector of one stage call
FunctionId(isLastCall, isObjectDeploy, largePackageAddress, isUpgrade) ==
    IF isLastCall
    THEN IF isObjectDeploy
         THEN IF isUpgrade
              THEN FunctionIdOf(largePackageAddress, UPGRADE_OBJECT)
              ELSE FunctionIdOf(largePackageAddress, PUBLISH_TO_OBJECT)
         ELSE FunctionIdOf(largePackageAddress, PUBLISH_TO_ACCOUNT)
    ELSE FunctionIdOf(largePackageAddress, STAGE)

\* mutant of PayloadArgs: the address is appended to every call of an upgrade
PayloadArgs_AddressOnEveryCall(meta, batch, isLastCall, isObjectDeploy, isUpgrade, objectAddress) ==
    LET args == << [type |-> "hex", value |-> HexValue(meta)],
                   [type |-> "u16", value |-> batch.codeIndices],
                   [type |-> "hex", value |-> HexValues(batch.curChunks)] >>
    IN  IF isObjectDeploy /\ isUpgrade /\ Truthy(objectAddress)
        THEN Append(args, [type |-> "address", value |-> objectAddress.v])
        ELSE args

\* the argument list of one stage call
PayloadArgs(meta, batch, isLastCall, isObjectDeploy, isUpgrade, objectAddress) ==
    LET args == << [type |-> "hex", value |-> HexValue(meta)],
                   [type |-> "u16", value |-> batch.codeIndices],
                   [type |-> "hex", value |-> HexValues(batch.curChunks)] >>
    IN  IF isLastCall /\ isObjectDeploy /\ isUpgrade /\ Truthy(objectAddress)
        THEN Append(args, [type |-> "address", value |-> objectAddress.v])
        ELSE args

\* mutant of MetaOf: the metadata is attached to every batch
MetaOf_EveryBatch(isFirst, metadataChunk) == metadataChunk

\* the metadata slot of a batch
MetaOf(isFirst, metadataChunk) ==
    IF isFirst THEN metadataChunk ELSE EmptyBuffer

\* the outer while loop.  The loop state is (idx, isFirst): an iteration
\* that starts with isFirst = false and leaves idx where it was starts the
\* next iteration in the very same loop state, so the code never leaves
\* the loop; the result then has returned = FALSE.
RECURSIVE WhileLoop(_, _, _, _, _, _, _, _, _, _)
WhileLoop(metadataChunk, codeChunks, maxSize, isObjectDeploy, largePackageAddress, isUpgrade, objectAddress, idx, isFirst, payloads) ==
    IF idx < Len(codeChunks)
    THEN LET meta == MetaOf(isFirst, metadataChunk)
             batch == PackBatch(codeChunks, maxSize,
                                [idx |-> idx, curSize |-> Len(meta),
                                 curChunks |-> <<>>, codeIndices |-> <<>>])
             isLastCall == batch.idx >= Len(codeChunks)
             payload == [function_id |-> FunctionId(isLastCall, isObjectDeploy,
                                                    largePackageAddress, isUpgrade),
                         type_args |-> <<>>,
                         args |-> PayloadArgs(meta, batch, isLastCall,
                                              isObjectDeploy, isUpgrade,
                                              objectAddress)]
         IN  IF ~isFirst /\ batch.idx = idx
             THEN [returned |-> FALSE, payloads |-> Append(payloads, payload)]
             ELSE WhileLoop(metadataChunk, codeChunks, maxSize, isObjectDeploy,
                            largePackageAddress, isUpgrade, objectAddress,
                            batch.idx, FALSE, Append(payloads, payload))
    ELSE [returned |-> TRUE, payloads |-> payloads]

\* mutant of simulatePayloads: an object deployment packs with one byte less
simulatePayloads_ObjectPacksTighter(metadataChunk, codeChunks, maxSize, isObjectDeploy, largePackageAddress, isUpgrade, objectAddress) ==
    WhileLoop(metadataChunk, codeChunks,
              IF isObjectDeploy THEN maxSize - 1 ELSE maxSize, isObjectDeploy,
              largePackageAddress, isUpgrade, objectAddress, 0, TRUE, <<>>)

simulatePayloads(metadataChunk, codeChunks, maxSize, isObjectDeploy, largePackageAddress, isUpgrade, objectAddress) ==
    WhileLoop(metadataChunk, codeChunks, maxSize, isObjectDeploy,
              largePackageAddress, isUpgrade, objectAddress, 0, TRUE, <<>>)

(***************************************************************************)
(* State                                                                   *)
(***************************************************************************)
VARIABLES
    pc,           \* position of the run
    packIn,       \* arguments of a direct call of simulatePayloads; the bundle
                  \* is recorded by the lengths of its blobs (metaLen, moduleLens)
    packOut,      \* its result: [returned, payloads]
    cli,          \* entry point: "commander" or "yargs"
    cmdline,      \* the options as typed on the command line
    argv,         \* the parsed options, as the action handler sees them
    project,      \* the artifact bundle the first build of the project yields
    artifacts,    \* the bundle the latest build left in the build directory
    steps,        \* the pipeline steps started so far, in order
    builds,       \* named-address value of every build run so far, in order
    simulated,    \* payloadsSim.length of the first packing pass
    lookups,      \* number of sequence-number lookups issued
    accountData,  \* the response of the lookup, once it has arrived
    sequences,    \* the sequence number taken from the lookup
    seed,         \* the serialized seed: [domain, u64]
    finalAddress, \* the address of the final build
    files,        \* payload_k.json written, k = 1..Len(files)
    jsonOut,      \* JSON result objects printed
    errors,       \* messages printed on the error stream
    exitCode      \* "running", "0" or "1"

packVars == <<packIn, packOut>>
runVars == <<cli, cmdline, argv, project, artifacts, steps, builds, simulated,
             lookups, accountData, sequences, seed, finalAddress, files, jsonOut,
             errors, exitCode>>
vars == <<pc, packVars, runVars>>

NoResult == [returned |-> FALSE, payloads |-> <<>>]

(***************************************************************************)
(* Inputs of the packer.                                                   *)
(***************************************************************************)
ModulesOf(lens) == [k \in 1..Len(lens) |-> ModuleBuf(k - 1, lens[k])]

SmallModuleLens == UNION {[1..k -> 0..MaxLen] : k \in 0..MaxModules}

\* (isObjectDeploy, isUpgrade, objectAddress) as the callers pass them:
\* handleNormalMode, buildAndGeneratePayloads for a new object,
\* handleDeployObjectMode's first pass with an empty --object-address,
\* and both passes of an upgrade
ObjectAddresses == {"0x0b1ec7"}

CallerModes ==
    {[isObjectDeploy |-> FALSE, isUpgrade |-> FALSE, objectAddress |-> JsUndefined],
     [isObjectDeploy |-> TRUE, isUpgrade |-> FALSE, objectAddress |-> JsUndefined],
     [isObjectDeploy |-> TRUE, isUpgrade |-> FALSE, objectAddress |-> JsStr("")]}
    \cup {[isObjectDeploy |-> TRUE, isUpgrade |-> TRUE, objectAddress |-> JsStr(a)] :
            a \in ObjectAddresses}

PackInput(metaLen, moduleLens, limit, mode) ==
    [metaLen |-> metaLen, moduleLens |-> moduleLens, maxSize |-> limit,
     isObjectDeploy |-> mode.isObjectDeploy,
     largePackageAddress |-> "0x7",
     isUpgrade |-> mode.isUpgrade,
     objectAddress |-> mode.objectAddress]

SmallPackInputs ==
    {PackInput(m, lens, limit, mode) :
        m \in 0..MaxLen, lens \in SmallModuleLens,
        limit \in 1..MaxLimit, mode \in CallerModes}

ScenarioPackInputs ==
    {PackInput(Scenario.metaLen, Scenario.moduleLens, Scenario.maxSize, mode) :
        mode \in CallerModes}

PackInputs == SmallPackInputs \cup ScenarioPackInputs

(***************************************************************************)
(* The create command: options.                                            *)
(***************************************************************************)
SENDER == "0xa11ce"
DEFAULT_LARGE_PACKAGE_ADDRESS == "0x7"
MAINNET_LARGE_PACKAGE_ADDRESS ==
    "0x0e1ca3011bdd07246d4d16d909dbb2d6953a86c4735d5acf5865d962c630cce7"
CUSTOM_LARGE_PACKAGE_ADDRESS == "0xc0ffee"
SEED_DOMAIN == "aptos_framework::object_code_deployment"
ACCOUNT_RESOURCE == "0x1::account::Account"

\* const MAX_SIZE = 60 * 1024; // 60KB
MAX_SIZE == 60 * 1024

Networks == {"devnet", "testnet", "mainnet"}

\* what may be typed: an option is absent (JsUndefined) or has a text value
BooleanTexts == {JsUndefined, JsStr("true"), JsStr("false")}

CmdLines ==
    [deployObject : BooleanTexts,
     objectAddress : {JsUndefined, JsStr("")} \cup {JsStr(a) : a \in ObjectAddresses},
     multiSign : BooleanTexts,
     network : Networks,
     largePackageAddress : {JsUndefined, JsStr(CUSTOM_LARGE_PACKAGE_ADDRESS)},
     outputFormat : {"default", "json"}]

\* an option declared '<boolean>' with default false: commander keeps the
\* typed text, yargs (type: "boolean") converts it
ParseBoolean(entry, typed) ==
    IF typed = JsUndefined THEN JsBool(FALSE)
    ELSE IF entry = "commander" THEN typed
    ELSE JsBool(typed.v = "true")

\* option with a default text
ParseDefault(typed, default) ==
    IF typed = JsUndefined THEN default ELSE typed.v

ParseArgs(entry, typed) ==
    [deployObject |-> ParseBoolean(entry, typed.deployObject),
     objectAddress |-> typed.objectAddress,
     multiSign |-> ParseBoolean(entry, typed.multiSign),
     network |-> typed.network,
     largePackageAddress |->
         ParseDefault(typed.largePackageAddress, DEFAULT_LARGE_PACKAGE_ADDRESS),
     outputFormat |-> typed.outputFormat,
     senderAddress |-> SENDER]

(***************************************************************************)
(* Projects: what `aptos move build` leaves in the build directory.        *)
(***************************************************************************)
Projects ==
    {[metaLen |-> 2, moduleLens |-> <<>>],
     [metaLen |-> 2, moduleLens |-> <<3>>],
     [metaLen |-> 2, moduleLens |-> <<3, 1>>],
     [metaLen |-> 2, moduleLens |-> <<3, MAX_SIZE + 1>>],
     [metaLen |-> Scenario.metaLen, moduleLens |-> Scenario.moduleLens]}

IsLargeProject(p) == p.moduleLens = Scenario.moduleLens

\* a later build compiles another named address into the modules and reads
\* the build directory anew: it may leave a different bundle
Rebuilds(p) ==
    IF IsLargeProject(p) THEN {p} ELSE {q \in Projects : ~IsLargeProject(q)}

NoBundle == [metaLen |-> 0, moduleLens |-> <<>>]
NoAccountData == [type |-> "none", data |-> FALSE, sequence_number |-> JsUndefined]
NoSeed == [domain |-> "", u64 |-> 0]

NoRun ==
    /\ cli = "none"
    /\ cmdline = [deployObject |-> JsUndefined, objectAddress |-> JsUndefined,
                  multiSign |-> JsUndefined, network |-> "devnet",
                  largePackageAddress |-> JsUndefined, outputFormat |-> "default"]
    /\ argv = ParseArgs("none", cmdline)
    /\ project = NoBundle
    /\ artifacts = NoBundle
    /\ steps = <<>>
    /\ builds = <<>>
    /\ simulated = 0
    /\ lookups = 0
    /\ accountData = NoAccountData
    /\ sequences = 0
    /\ seed = NoSeed
    /\ finalAddress = ""
    /\ files = <<>>
    /\ jsonOut = <<>>
    /\ errors = <<>>
    /\ exitCode = "running"

(***************************************************************************)
(* SpecPack: simulatePayloads called on its own.                           *)
(***************************************************************************)
PackInit ==
    /\ pc = "pack_call"
    /\ packIn \in PackInputs
    /\ packOut = NoResult
    /\ NoRun

\* one call; a call whose loop never ends stays in "pack_looping"
PackCall ==
    /\ pc = "pack_call"
    /\ packOut' = simulatePayloads(MetadataBuf(packIn.metaLen),
                                   ModulesOf(packIn.moduleLens),
                                   packIn.maxSize, packIn.isObjectDeploy,
                                   packIn.largePackageAddress, packIn.isUpgrade,
                                   packIn.objectAddress)
    /\ pc' = IF packOut'.returned THEN "pack_returned" ELSE "pack_looping"
    /\ UNCHANGED <<packIn, runVars>>

PackNext == PackCall

SpecPack == PackInit /\ [][PackNext]_vars

(***************************************************************************)
(* Spec: one run of the create command.                                    *)
(***************************************************************************)
Init ==
    /\ pc = "start"
    /\ packIn = PackInput(0, <<>>, 1, [isObjectDeploy |-> FALSE, isUpgrade |-> FALSE,
                                       objectAddress |-> JsUndefined])
    /\ packOut = NoResult
    /\ cli \in {"commander", "yargs"}
    /\ cmdline \in CmdLines
    /\ cli = "commander" => cmdline.outputFormat = "default"
    /\ project \in Projects
    /\ IsLargeProject(project) =>
          /\ cmdline.network = "devnet"
          /\ cmdline.largePackageAddress = JsUndefined
    /\ argv = ParseArgs(cli, cmdline)
    /\ artifacts = NoBundle
    /\ steps = <<>>
    /\ builds = <<>>
    /\ simulated = 0
    /\ lookups = 0
    /\ accountData = NoAccountData
    /\ sequences = 0
    /\ seed = NoSeed
    /\ finalAddress = ""
    /\ files = <<>>
    /\ jsonOut = <<>>
    /\ errors = <<>>
    /\ exitCode = "running"

JsonMode == argv.outputFormat = "json"

\* mutant of FileNames: the names are numbered from 0
FileNames_ZeroBased(count) == [i \in 1..count |-> "payload_" \o ToString(i - 1) \o ".json"]

\* Array.from({ length: count }, (_, i) => `payload_${i + 1}.json`)
FileNames(count) == [i \in 1..count |-> "payload_" \o ToString(i) \o ".json"]

\* a precondition of the command fails: message, then process.exit(1)
PreconditionFails(message) ==
    /\ jsonOut' = IF JsonMode
                  THEN Append(jsonOut, [status |-> "failure", reason |-> message])
                  ELSE jsonOut
    /\ errors' = IF JsonMode THEN errors ELSE Append(errors, message)
    /\ exitCode' = "1"
    /\ pc' = "exited"

\* mutant of HandlerThrows: in json mode the handler's catch prints the
\* failure and rethrows, and the command's catch prints it again
HandlerThrows_PrintsAndRethrows(handler, reason) ==
    /\ jsonOut' = IF cli = "yargs" /\ JsonMode
                  THEN jsonOut \o <<[status |-> "failure", reason |-> reason],
                                    [status |-> "failure", reason |-> reason]>>
                  ELSE jsonOut
    /\ errors' = IF cli = "yargs" /\ JsonMode THEN errors
                 ELSE IF cli = "commander" /\ handler = "object"
                 THEN Append(errors, "Unhandled rejection: " \o reason)
                 ELSE Append(errors, "Failed to create payload: " \o reason)
    /\ exitCode' = "1"
    /\ pc' = "failed"

\* an error thrown inside a handler.  yargs, json: the handler's own catch
\* prints the failure object and returns.  yargs, default: rethrown to the
\* command's catch (message, process.exit(1)).  commander: the command's
\* catch for handleNormalMode; the promise of handleDeployObjectMode is not
\* awaited, so its rejection is unhandled and ends the process.
HandlerThrows(handler, reason) ==
    /\ jsonOut' = IF cli = "yargs" /\ JsonMode
                  THEN Append(jsonOut, [status |-> "failure", reason |-> reason])
                  ELSE jsonOut
    /\ errors' = IF cli = "yargs" /\ JsonMode THEN errors
                 ELSE IF cli = "commander" /\ handler = "object"
                 THEN Append(errors, "Unhandled rejection: " \o reason)
                 ELSE Append(errors, "Failed to create payload: " \o reason)
    /\ exitCode' = IF cli = "yargs" /\ JsonMode THEN "0" ELSE "1"
    /\ pc' = "failed"

\* the handler returns normally after writing `payloads`
HandlerSucceeds(payloads) ==
    /\ files' = payloads
    /\ jsonOut' = IF JsonMode
                  THEN Append(jsonOut, [status |-> "success",
                                        file_names |-> FileNames(Len(payloads))])
                  ELSE jsonOut
    /\ errors' = errors
    /\ exitCode' = "0"
    /\ pc' = "done"

\* the large-package address after the network switch of the command
\* (commander switches on options.nextwork, which is never set)
NetworkLargePackageAddress ==
    IF cli = "yargs"
    THEN IF argv.network \in {"mainnet", "testnet"}
            /\ argv.largePackageAddress = DEFAULT_LARGE_PACKAGE_ADDRESS
         THEN MAINNET_LARGE_PACKAGE_ADDRESS
         ELSE argv.largePackageAddress
    ELSE argv.largePackageAddress

\* if (argv.objectAddress) { argv.deployObject = true; }
DeployObjectOption ==
    IF Truthy(argv.objectAddress) THEN JsBool(TRUE) ELSE argv.deployObject

\* if (options.objectAddress || options.deployObject === true)
DispatchesToObject(options) ==
    Truthy(options.objectAddress) \/ options.deployObject = JsBool(TRUE)

\* the action callback of the create command, up to the dispatch
CreateCommand ==
    /\ pc = "start"
    /\ \E aptosCliExists \in BOOLEAN, isMoveProject \in BOOLEAN,
          contractAddressName \in BOOLEAN :
          IF ~aptosCliExists
          THEN /\ PreconditionFails("The aptos CLI is not found in your system")
               /\ UNCHANGED argv
          ELSE IF ~isMoveProject
          THEN /\ PreconditionFails("Move.toml not found")
               /\ UNCHANGED argv
          ELSE IF ~contractAddressName
          THEN /\ PreconditionFails("Error: --contract-address-name is required")
               /\ UNCHANGED argv
          ELSE /\ argv' = [argv EXCEPT !.deployObject = DeployObjectOption,
                                       !.largePackageAddress = NetworkLargePackageAddress]
               /\ pc' = IF DispatchesToObject(argv') THEN "object" ELSE "normal"
               /\ UNCHANGED <<jsonOut, errors, exitCode>>
    /\ UNCHANGED <<packVars, cli, cmdline, project, artifacts, steps, builds,
                   simulated, lookups, accountData, sequences, seed, finalAddress,
                   files>>

\* simulatePayloads on the artifacts a build has left
PackProject(bundle, maxSize, isObjectDeploy, isUpgrade, objectAddress) ==
    simulatePayloads(MetadataBuf(bundle.metaLen), ModulesOf(bundle.moduleLens),
                     maxSize, isObjectDeploy, argv.largePackageAddress,
                     isUpgrade, objectAddress)

\* handleNormalMode
HandleNormalMode ==
    /\ pc = "normal"
    /\ \E buildOk \in BOOLEAN :
          IF ~buildOk
          THEN /\ HandlerThrows("normal", "build failed")
               /\ steps' = Append(steps, "build")
               /\ UNCHANGED <<artifacts, files>>
          ELSE LET result == PackProject(project, MAX_SIZE, FALSE, FALSE, JsUndefined)
               IN  /\ artifacts' = project
                   /\ IF result.returned
                      THEN /\ HandlerSucceeds(result.payloads)
                           /\ steps' = steps \o <<"build", "pack", "write">>
                      ELSE /\ pc' = "hung"
                           /\ steps' = steps \o <<"build", "pack">>
                           /\ UNCHANGED <<files, jsonOut, errors, exitCode>>
    /\ builds' = Append(builds, argv.senderAddress)
    /\ UNCHANGED <<packVars, cli, cmdline, argv, project, simulated, lookups,
                   accountData, sequences, seed, finalAddress>>

\* mutant of IsUpgrade: an object address is never taken as an upgrade
IsUpgrade_Never == FALSE

\* mutant of IsUpgrade: an upgrade also needs --deploy-object true
IsUpgrade_NeedsDeployObject ==
    /\ Truthy(argv.objectAddress)
    /\ argv.objectAddress # JsStr("")
    /\ cmdline.deployObject = JsStr("true")

\* const isUpgrade = options.objectAddress && options.objectAddress !== "";
IsUpgrade == Truthy(argv.objectAddress) /\ argv.objectAddress # JsStr("")

\* mutant of FinalPass: packs the bundle of the first build again
FinalPass_PacksFirstArtifacts(prior, address, isUpgrade, buildOk, rebuilt) ==
    /\ builds' = Append(prior.builds, address)
    /\ IF ~buildOk
       THEN /\ HandlerThrows("object", "Build and generate payloads failed")
            /\ steps' = Append(prior.steps, "build")
            /\ artifacts' = prior.artifacts
            /\ UNCHANGED files
       ELSE LET result == PackProject(prior.artifacts, MAX_SIZE, TRUE, isUpgrade,
                                      IF isUpgrade THEN argv.objectAddress
                                      ELSE JsUndefined)
            IN  /\ artifacts' = rebuilt
                /\ IF result.returned
                   THEN /\ HandlerSucceeds(result.payloads)
                        /\ steps' = prior.steps \o <<"build", "pack", "write">>
                   ELSE /\ pc' = "hung"
                        /\ steps' = prior.steps \o <<"build", "pack">>
                        /\ UNCHANGED <<files, jsonOut, errors, exitCode>>

\* buildAndGeneratePayloads with the final address, then the success report;
\* prior = [builds, steps, artifacts] as the handler has left them, rebuilt = the bundle
\* this build yields
FinalPass(prior, address, isUpgrade, buildOk, rebuilt) ==
    /\ builds' = Append(prior.builds, address)
    /\ IF ~buildOk
       THEN /\ HandlerThrows("object", "Build and generate payloads failed")
            /\ steps' = Append(prior.steps, "build")
            /\ artifacts' = prior.artifacts
            /\ UNCHANGED files
       ELSE LET result == PackProject(rebuilt, MAX_SIZE, TRUE, isUpgrade,
                                      IF isUpgrade THEN argv.objectAddress
                                      ELSE JsUndefined)
            IN  /\ artifacts' = rebuilt
                /\ IF result.returned
                   THEN /\ HandlerSucceeds(result.payloads)
                        /\ steps' = prior.steps \o <<"build", "pack", "write">>
                   ELSE /\ pc' = "hung"
                        /\ steps' = prior.steps \o <<"build", "pack">>
                        /\ UNCHANGED <<files, jsonOut, errors, exitCode>>

\* handleDeployObjectMode up to its first await: the first build, the first
\* packing pass and, for an upgrade, the rest of the handler
HandleDeployObjectMode ==
    /\ pc = "object"
    /\ \E buildOk \in BOOLEAN, finalBuildOk \in BOOLEAN, rebuilt \in Rebuilds(project) :
          IF ~buildOk
          THEN /\ HandlerThrows("object", "build failed")
               /\ builds' = Append(builds, argv.senderAddress)
               /\ steps' = Append(steps, "build")
               /\ UNCHANGED <<artifacts, simulated, lookups, finalAddress, files>>
          ELSE LET payloadsSim == PackProject(project, MAX_SIZE, TRUE, IsUpgrade,
                                              argv.objectAddress)
               IN  IF ~payloadsSim.returned
                   THEN /\ pc' = "hung"
                        /\ builds' = Append(builds, argv.senderAddress)
                        /\ steps' = steps \o <<"build", "pack">>
                        /\ artifacts' = project
                        /\ UNCHANGED <<simulated, lookups, finalAddress, files,
                                       jsonOut, errors, exitCode>>
                   ELSE /\ simulated' = Len(payloadsSim.payloads)
                        /\ IF IsUpgrade
                           THEN /\ finalAddress' = argv.objectAddress.v
                                /\ FinalPass([builds |-> Append(builds, argv.senderAddress),
                                              steps |-> steps \o <<"build", "pack">>,
                                              artifacts |-> project],
                                             finalAddress', TRUE, finalBuildOk, rebuilt)
                                /\ UNCHANGED lookups
                           ELSE /\ lookups' = lookups + 1
                                /\ builds' = Append(builds, argv.senderAddress)
                                /\ steps' = steps \o <<"build", "pack", "lookup">>
                                /\ artifacts' = project
                                /\ pc' = "await_lookup"
                                /\ UNCHANGED <<finalAddress, files, jsonOut,
                                               errors, exitCode>>
    /\ UNCHANGED <<packVars, cli, cmdline, argv, project, accountData, sequences,
                   seed>>

\* responses of GET /accounts/<sender>/resource/0x1::account::Account, as
\* result.json() yields them
LookupResponses ==
    {[type |-> ACCOUNT_RESOURCE, data |-> TRUE,
      sequence_number |-> JsStr(ToString(n))] : n \in 0..MaxSeq}
    \cup {[type |-> ACCOUNT_RESOURCE, data |-> TRUE, sequence_number |-> JsUndefined],
          [type |-> ACCOUNT_RESOURCE, data |-> FALSE, sequence_number |-> JsUndefined],
          [type |-> "0x1::coin::CoinStore", data |-> TRUE,
           sequence_number |-> JsStr("1")],
          [type |-> "", data |-> FALSE, sequence_number |-> JsUndefined]}

\* parseInt(text, 10) of a decimal text
ParseInt(text) == CHOOSE n \in 0..(MaxSeq + 1) : ToString(n) = text

\* let sequences = 0; if (type is Account && data && data.sequence_number) ...
SequencesOf(response) ==
    IF /\ response.type = ACCOUNT_RESOURCE
       /\ response.data
       /\ Truthy(response.sequence_number)
    THEN ParseInt(response.sequence_number.v)
    ELSE 0

\* mutant of SeedInteger: the batch count is never added
SeedInteger_PlusOne(seq, batchCount) ==
    seq + 1

\* the integer serialized after the domain string
SeedInteger(seq, batchCount) ==
    IF argv.multiSign = JsStr("true")
    THEN seq + 1
    ELSE seq + batchCount

\* ser.serializeBytes(domain); ser.serializeU64(n)
SeedOf(seq, batchCount) ==
    [domain |-> SEED_DOMAIN, u64 |-> SeedInteger(seq, batchCount)]

\* createObjectAddress(sender, seed).toString(): the external primitive, a
\* function of the sender and of the seed that keeps different seeds apart
createObjectAddress(sender, objectSeed) ==
    "object(" \o sender \o "," \o objectSeed.domain \o ","
              \o ToString(objectSeed.u64) \o ")"

\* handleDeployObjectMode after its awaits (fetch, result.json()) in create
\* mode: the seed, the derived address, the final build and packing pass
LookupResponds ==
    /\ pc = "await_lookup"
    /\ \E rejected \in BOOLEAN, response \in LookupResponses,
          finalBuildOk \in BOOLEAN, rebuilt \in Rebuilds(project) :
          IF rejected
          THEN /\ HandlerThrows("object", "fetch failed")
               /\ UNCHANGED <<artifacts, steps, builds, accountData, sequences,
                              seed, finalAddress, files>>
          ELSE /\ accountData' = response
               /\ sequences' = SequencesOf(response)
               /\ seed' = SeedOf(sequences', simulated)
               /\ finalAddress' = createObjectAddress(argv.senderAddress, seed')
               /\ FinalPass([builds |-> builds, steps |-> Append(steps, "derive"),
                             artifacts |-> artifacts],
                            finalAddress', FALSE, finalBuildOk, rebuilt)
    /\ UNCHANGED <<packVars, cli, cmdline, argv, project, simulated, lookups>>

Next ==
    \/ CreateCommand
    \/ HandleNormalMode
    \/ HandleDeployObjectMode
    \/ LookupResponds

Spec == Init /\ [][Next]_vars

(***************************************************************************)
(* C1 as claimed: in an object-create run the integer serialized into the  *)
(* seed is sequence_number + 1 when --multi-sign is set to true, whatever  *)
(* the batch count, and sequence_number + (number of stage calls of the    *)
(* first packing pass) otherwise.                                          *)
(***************************************************************************)
SeedDerived == seed # NoSeed

C1_SeedInteger ==
    SeedDerived =>
        seed.u64 = IF cmdline.multiSign = JsStr("true")
                   THEN sequences + 1
                   ELSE sequences + simulated

(***************************************************************************)
(* Reading a returned payload list.                                        *)
(***************************************************************************)
Returned == pc = "pack_returned"
Payloads == packOut.payloads
NumModules == Len(packIn.moduleLens)

MetaArg(p) == p.args[1].value
IndexArg(p) == p.args[2].value
ModuleArg(p) == p.args[3].value

\* number of bytes a "0x..." hex string encodes
HexLen(h) == (Len(h) - 2) \div 2

RECURSIVE SumHexLen(_)
SumHexLen(hs) ==
    IF hs = <<>> THEN 0 ELSE HexLen(Head(hs)) + SumHexLen(Tail(hs))

\* metadata slice plus the modules of the batch, in bytes
BatchSize(p) == HexLen(MetaArg(p)) + SumHexLen(ModuleArg(p))

RECURSIVE AllIndices(_)
AllIndices(ps) ==
    IF ps = <<>> THEN <<>> ELSE IndexArg(Head(ps)) \o AllIndices(Tail(ps))

IsTerminal(p) ==
    \E fn \in TerminalFunctions :
        p.function_id = FunctionIdOf(packIn.largePackageAddress, fn)

\* the terminal staging function of the deployment mode
TerminalOfMode ==
    IF ~packIn.isObjectDeploy THEN PUBLISH_TO_ACCOUNT
    ELSE IF packIn.isUpgrade THEN UPGRADE_OBJECT
    ELSE PUBLISH_TO_OBJECT

IsScenario ==
    /\ packIn.metaLen = Scenario.metaLen
    /\ packIn.moduleLens = Scenario.moduleLens
    /\ packIn.maxSize = Scenario.maxSize

(***************************************************************************)
(* C2: when simulatePayloads returns, the index lists of the payloads,     *)
(* concatenated in output order, are exactly 0, 1, ..., n-1: every module  *)
(* index once, strictly increasing within and across payloads.             *)
(***************************************************************************)
C2_IndicesCoverInOrder ==
    Returned =>
        /\ AllIndices(Payloads) = [i \in 1..NumModules |-> i - 1]
        /\ \A k \in 1..Len(Payloads) :
              \A i, j \in 1..Len(IndexArg(Payloads[k])) :
                  i < j => IndexArg(Payloads[k])[i] < IndexArg(Payloads[k])[j]

C2_Witness ==
    /\ Returned
    /\ NumModules = 3
    /\ Len(Payloads) = 2
    /\ Len(IndexArg(Payloads[2])) = 2

C4_Terminates ==
    pc # "pack_call" => packOut.returned

(***************************************************************************)
(* C5 as claimed: for an empty module sequence exactly one payload is      *)
(* returned, with the full metadata, empty index and module lists and the  *)
(* terminal selector of the mode.                                          *)
(***************************************************************************)
C5_EmptyBundleOnePayload ==
    (pc # "pack_call" /\ NumModules = 0) =>
        /\ packOut.returned
        /\ Len(Payloads) = 1
        /\ MetaArg(Payloads[1]) = HexValue(MetadataBuf(packIn.metaLen))
        /\ IndexArg(Payloads[1]) = <<>>
        /\ ModuleArg(Payloads[1]) = <<>>
        /\ Payloads[1].function_id =
               FunctionIdOf(packIn.largePackageAddress, TerminalOfMode)

(***************************************************************************)
(* C6 as claimed: in the scenario (metadata 10 bytes, modules of 50000,    *)
(* 50000 and 100 bytes, limit 60000) three payloads are returned: metadata *)
(* with module 0, module 1 alone, module 2 alone as the terminal call.     *)
(***************************************************************************)
C6_Original ==
    (pc # "pack_call" /\ IsScenario) =>
        /\ packOut.returned
        /\ Len(Payloads) = 3
        /\ MetaArg(Payloads[1]) = HexValue(MetadataBuf(packIn.metaLen))
        /\ IndexArg(Payloads[1]) = <<0>>
        /\ IndexArg(Payloads[2]) = <<1>>
        /\ IndexArg(Payloads[3]) = <<2>>
        /\ IsTerminal(Payloads[3])

(***************************************************************************)
(* C6 amended: in the scenario two payloads are returned: the first holds  *)
(* the metadata and module 0, the second holds modules 1 and 2 (50000 +    *)
(* 100 bytes fit the limit) and is the terminal call.                      *)
(***************************************************************************)
C6_ScenarioTwoPayloads ==
    (pc # "pack_call" /\ IsScenario) =>
        /\ packOut.returned
        /\ Len(Payloads) = 2
        /\ MetaArg(Payloads[1]) = HexValue(MetadataBuf(packIn.metaLen))
        /\ IndexArg(Payloads[1]) = <<0>>
        /\ ModuleArg(Payloads[1]) = <<HexValue(ModuleBuf(0, packIn.moduleLens[1]))>>
        /\ ~IsTerminal(Payloads[1])
        /\ MetaArg(Payloads[2]) = "0x"
        /\ IndexArg(Payloads[2]) = <<1, 2>>
        /\ ModuleArg(Payloads[2]) = <<HexValue(ModuleBuf(1, packIn.moduleLens[2])),
                                      HexValue(ModuleBuf(2, packIn.moduleLens[3]))>>
        /\ Payloads[2].function_id =
               FunctionIdOf(packIn.largePackageAddress, TerminalOfMode)

C6_Witness ==
    /\ Returned
    /\ IsScenario
    /\ BatchSize(Payloads[1]) = 50010
    /\ BatchSize(Payloads[2]) = 50100

(***************************************************************************)
(* C7 as claimed: exactly one of the stage calls simulatePayloads returns  *)
(* has a terminal selector; every other one has stage_code_chunk.          *)
(***************************************************************************)
C7_ExactlyOneTerminal ==
    Returned =>
        /\ Cardinality({k \in 1..Len(Payloads) : IsTerminal(Payloads[k])}) = 1
        /\ \A k \in 1..Len(Payloads) :
              \/ IsTerminal(Payloads[k])
              \/ Payloads[k].function_id =
                     FunctionIdOf(packIn.largePackageAddress, STAGE)

(***************************************************************************)
(* C8: the selector follows the decision table on (batch position, target  *)
(* kind): stage_code_chunk for every batch but the last, and for the last  *)
(* batch publish_to_account, publish_to_object or upgrade_object_code.     *)
(***************************************************************************)
C8_SelectorTable ==
    Returned =>
        \A k \in 1..Len(Payloads) :
            Payloads[k].function_id =
                FunctionIdOf(packIn.largePackageAddress,
                             IF k < Len(Payloads) THEN STAGE
                             ELSE IF ~packIn.isObjectDeploy THEN PUBLISH_TO_ACCOUNT
                             ELSE IF packIn.isUpgrade THEN UPGRADE_OBJECT
                             ELSE PUBLISH_TO_OBJECT)

C8_Witness ==
    /\ Returned
    /\ Len(Payloads) = 3
    /\ packIn.isObjectDeploy
    /\ ~packIn.isUpgrade
    /\ Payloads[1].function_id = FunctionIdOf(packIn.largePackageAddress, STAGE)
    /\ Payloads[3].function_id =
           FunctionIdOf(packIn.largePackageAddress, PUBLISH_TO_OBJECT)

(***************************************************************************)
(* C9: the terminal call of an object-upgrade deployment has exactly 4     *)
(* arguments, the fourth being the target object address; every other      *)
(* stage call has exactly 3.                                               *)
(***************************************************************************)
C9_ArgumentCount ==
    Returned =>
        \A k \in 1..Len(Payloads) :
            IF k = Len(Payloads) /\ packIn.isObjectDeploy /\ packIn.isUpgrade
            THEN /\ Len(Payloads[k].args) = 4
                 /\ Payloads[k].args[4] =
                        [type |-> "address", value |-> packIn.objectAddress.v]
            ELSE Len(Payloads[k].args) = 3

C9_Witness ==
    /\ Returned
    /\ packIn.isUpgrade
    /\ Len(Payloads) = 2
    /\ Len(Payloads[1].args) = 3
    /\ Len(Payloads[2].args) = 4

(***************************************************************************)
(* C10 as claimed: the metadata blob appears in full in exactly one        *)
(* returned payload, the first; every other payload's metadata is "0x".    *)
(***************************************************************************)
C10_MetadataOnlyFirst ==
    Returned =>
        /\ Len(Payloads) >= 1
        /\ MetaArg(Payloads[1]) = HexValue(MetadataBuf(packIn.metaLen))
        /\ \A k \in 2..Len(Payloads) : MetaArg(Payloads[k]) = "0x"

(***************************************************************************)
(* C11 as claimed: when the module sequence is not empty, every payload    *)
(* simulatePayloads returns has at least one module in its module list.    *)
(***************************************************************************)
C11_EveryBatchHasModule ==
    (Returned /\ NumModules > 0) =>
        \A k \in 1..Len(Payloads) : ModuleArg(Payloads[k]) # <<>>

(***************************************************************************)
(* C12 as claimed: a module longer than the limit is still emitted, in a   *)
(* payload whose module list holds exactly that module, and the modules    *)
(* after it are packed as well (the call returns, every index is emitted). *)
(***************************************************************************)
OversizedModules == {i \in 1..NumModules : packIn.moduleLens[i] > packIn.maxSize}

C12_OversizedModuleAlone ==
    (pc # "pack_call" /\ OversizedModules # {}) =>
        /\ packOut.returned
        /\ \A i \in OversizedModules :
              \E k \in 1..Len(Payloads) :
                  /\ IndexArg(Payloads[k]) = <<i - 1>>
                  /\ ModuleArg(Payloads[k]) =
                         <<HexValue(ModuleBuf(i - 1, packIn.moduleLens[i]))>>
        /\ AllIndices(Payloads) = [i \in 1..NumModules |-> i - 1]

(***************************************************************************)
(* Reading a run of the create command.                                    *)
(***************************************************************************)
Dispatched == pc \notin {"start", "exited"}
ObjectRun == Dispatched /\ DispatchesToObject(argv)
UpgradeRun == ObjectRun /\ cmdline.objectAddress \in {JsStr(a) : a \in ObjectAddresses}
CreateRun == ObjectRun /\ ~UpgradeRun
AccountRun == Dispatched /\ ~ObjectRun

StagingFunctions == {STAGE} \cup TerminalFunctions

IsPrefix(s, t) == Len(s) <= Len(t) /\ s = SubSeq(t, 1, Len(s))

CreateSteps == <<"build", "pack", "lookup", "derive", "build", "pack", "write">>

\* the payloads of a packing pass for a new object over the latest artifacts
SecondPassPayloads ==
    PackProject(artifacts, MAX_SIZE, TRUE, FALSE, JsUndefined).payloads

ValidShape(response) == response.type = ACCOUNT_RESOURCE /\ response.data

C15_UnexpectedShapeFails ==
    (CreateRun /\ accountData # NoAccountData /\ ~ValidShape(accountData)) =>
        /\ pc = "failed"
        /\ ~SeedDerived
        /\ files = <<>>

(***************************************************************************)
(* C16 as claimed: a run in which a step fails ends with the failure       *)
(* reported and a non-zero exit status, and success is never reported.     *)
(***************************************************************************)
FailureReported ==
    \/ errors # <<>>
    \/ \E k \in 1..Len(jsonOut) : jsonOut[k].status = "failure"

SuccessReported == \E k \in 1..Len(jsonOut) : jsonOut[k].status = "success"

C16_FailuresPropagate ==
    pc = "failed" =>
        /\ FailureReported
        /\ exitCode = "1"
        /\ ~SuccessReported

(***************************************************************************)
(* C17 as claimed: a run with --deploy-object true and no --object-address *)
(* goes to the object-deploy handler, derives a new object address, and    *)
(* its terminal call is stage_code_chunk_and_publish_to_object.            *)
(***************************************************************************)
C17_DeployObjectTrueIsCreate ==
    (/\ Dispatched
     /\ cmdline.deployObject = JsStr("true")
     /\ cmdline.objectAddress = JsUndefined) =>
        /\ pc # "normal"
        /\ pc = "done" =>
              /\ SeedDerived
              /\ finalAddress = createObjectAddress(SENDER, seed)
              /\ files # <<>> =>
                    files[Len(files)].function_id =
                        FunctionIdOf(argv.largePackageAddress, PUBLISH_TO_OBJECT)

(***************************************************************************)
(* C18 as claimed: the namespace of every function_id written is 0x7 on    *)
(* devnet and 0x0e1c...cce7 on testnet and mainnet when                    *)
(* --large-package-address is not given, and the given address otherwise.  *)
(***************************************************************************)
ExpectedStagingAddress ==
    IF cmdline.largePackageAddress # JsUndefined
    THEN cmdline.largePackageAddress.v
    ELSE IF cmdline.network = "devnet" THEN DEFAULT_LARGE_PACKAGE_ADDRESS
    ELSE MAINNET_LARGE_PACKAGE_ADDRESS

C18_StagingAddressByNetwork ==
    \A k \in 1..Len(files) :
        \E fn \in StagingFunctions :
            files[k].function_id = FunctionIdOf(ExpectedStagingAddress, fn)

(***************************************************************************)
(* C19: in every returned payload the index list and the module list have  *)
(* the same length, and the k-th module is the hex encoding of the module  *)
(* of the bundle at the k-th index.                                        *)
(***************************************************************************)
C19_IndexAndModuleListsParallel ==
    Returned =>
        \A k \in 1..Len(Payloads) :
            /\ Len(IndexArg(Payloads[k])) = Len(ModuleArg(Payloads[k]))
            /\ \A j \in 1..Len(IndexArg(Payloads[k])) :
                  LET i == IndexArg(Payloads[k])[j]
                  IN  /\ i \in 0..(NumModules - 1)
                      /\ ModuleArg(Payloads[k])[j] =
                             HexValue(ModuleBuf(i, packIn.moduleLens[i + 1]))

C19_Witness ==
    /\ Returned
    /\ Len(Payloads) = 2
    /\ IndexArg(Payloads[2]) = <<1, 2>>
    /\ ModuleArg(Payloads[2])[1] # ModuleArg(Payloads[2])[2]
    /\ ModuleArg(Payloads[2])[1] # ModuleArg(Payloads[1])[1]

(***************************************************************************)
(* C20: every stage call written has a function_id of the form             *)
(* <large-package address of the run>::large_packages::<one of the four    *)
(* staging functions>, an empty type_args list, and the arguments hex      *)
(* metadata, u16 index list, hex module list, then at most one address.    *)
(***************************************************************************)
C20_StageCallShape ==
    \A k \in 1..Len(files) :
        /\ \E fn \in StagingFunctions :
              files[k].function_id = argv.largePackageAddress \o "::large_packages::" \o fn
        /\ files[k].type_args = <<>>
        /\ Len(files[k].args) \in {3, 4}
        /\ files[k].args[1].type = "hex"
        /\ files[k].args[2].type = "u16"
        /\ files[k].args[3].type = "hex"
        /\ Len(files[k].args) = 4 => files[k].args[4].type = "address"

C20_Witness ==
    /\ pc = "done"
    /\ UpgradeRun
    /\ argv.largePackageAddress = CUSTOM_LARGE_PACKAGE_ADDRESS
    /\ Len(files) = 1
    /\ Len(files[1].args) = 4
    /\ files[1].function_id =
           "0xc0ffee::large_packages::stage_code_chunk_and_upgrade_object_code"

(***************************************************************************)
(* C21: with --output-format json a run of the create command prints       *)
(* exactly one JSON result object by the time it ends, a success object    *)
(* with file_names or a failure object with a reason, and never more than  *)
(* one at any time; this on precondition failures, handler failures and    *)
(* success, in account and object mode.                                    *)
(***************************************************************************)
Ended == pc \in {"exited", "failed", "done"}

EmittedPayloads ==
    IF AccountRun THEN PackProject(artifacts, MAX_SIZE, FALSE, FALSE, JsUndefined).payloads
    ELSE IF UpgradeRun
    THEN PackProject(artifacts, MAX_SIZE, TRUE, TRUE, cmdline.objectAddress).payloads
    ELSE SecondPassPayloads

PayloadFileNames == <<"payload_1.json", "payload_2.json", "payload_3.json">>

C22_FilesInPackingOrder ==
    /\ files # <<>> => pc = "done"
    /\ pc = "done" =>
          /\ files = EmittedPayloads
          /\ Len(files) <= Len(PayloadFileNames)
          /\ JsonMode =>
                jsonOut[1].file_names = SubSeq(PayloadFileNames, 1, Len(files))

C22_Witness ==
    /\ pc = "done"
    /\ JsonMode
    /\ CreateRun
    /\ Len(files) = 2
    /\ IndexArg(files[1]) = <<0>>
    /\ IndexArg(files[2]) = <<1, 2>>
    /\ jsonOut[1].file_names = <<"payload_1.json", "payload_2.json">>

(***************************************************************************)
(* C23: in a single-signer object-create run whose two builds yield        *)
(* bundles with the same metadata length and the same module lengths, the  *)
(* number of payloads the second pass writes equals the batch count added  *)
(* to the sequence number in the seed, which is the count of the first     *)
(* pass (both passes pack with the 60 KiB limit).                          *)
(***************************************************************************)
SingleSigner == cmdline.multiSign # JsStr("true")

SameBundleLengths ==
    /\ artifacts.metaLen = project.metaLen
    /\ artifacts.moduleLens = project.moduleLens

C23_SecondPassCountIsSeedCount ==
    (CreateRun /\ pc = "done" /\ SingleSigner /\ SameBundleLengths) =>
        /\ Len(files) = seed.u64 - sequences
        /\ Len(files) = simulated
        /\ files = PackProject(project, 60 * 1024, TRUE, FALSE, JsUndefined).payloads

C23_Witness ==
    /\ CreateRun
    /\ pc = "done"
    /\ SingleSigner
    /\ SameBundleLengths
    /\ IsLargeProject(project)
    /\ sequences = 1
    /\ seed.u64 = 3
    /\ Len(files) = 2

(***************************************************************************)
(* C24: for a fixed bundle, limit and staging address the outputs of       *)
(* simulatePayloads for the account, object-create and object-upgrade      *)
(* kinds have the same number of payloads, the same arguments 1 to 3 in    *)
(* every payload and the same selector on every payload but the last; only *)
(* the last payload's selector and fourth argument depend on the kind.     *)
(***************************************************************************)
\* the same call for another target kind
OutputForMode(mode) ==
    simulatePayloads(MetadataBuf(packIn.metaLen), ModulesOf(packIn.moduleLens),
                     packIn.maxSize, mode.isObjectDeploy,
                     packIn.largePackageAddress, mode.isUpgrade,
                     mode.objectAddress)

C24_BatchingIndependentOfMode ==
    pc # "pack_call" =>
        \A mode \in CallerModes :
            LET other == OutputForMode(mode)
            IN  /\ other.returned = packOut.returned
                /\ Len(other.payloads) = Len(Payloads)
                /\ \A k \in 1..Len(Payloads) :
                      /\ SubSeq(other.payloads[k].args, 1, 3)
                             = SubSeq(Payloads[k].args, 1, 3)
                      /\ other.payloads[k].type_args = Payloads[k].type_args
                      /\ (k < Len(Payloads) \/ ~Returned) =>
                             other.payloads[k] = Payloads[k]

C24_Witness ==
    /\ Returned
    /\ packIn.isObjectDeploy
    /\ packIn.isUpgrade
    /\ Len(Payloads) = 3
    /\ Len(Payloads[3].args) = 4
    /\ \E mode \in CallerModes :
          /\ ~mode.isObjectDeploy
          /\ OutputForMode(mode).payloads[3] # Payloads[3]
          /\ OutputForMode(mode).payloads[2] = Payloads[2]

(***************************************************************************)
(* C25: packing is greedy: every returned payload but the last was closed  *)
(* because the next module would overflow it, i.e. its batch size plus the *)
(* length of the first module of the following payload exceeds the limit.  *)
(***************************************************************************)
C25_GreedyBatches ==
    Returned =>
        \A k \in 1..(Len(Payloads) - 1) :
            /\ ModuleArg(Payloads[k + 1]) # <<>>
            /\ BatchSize(Payloads[k]) + HexLen(ModuleArg(Payloads[k + 1])[1])
                   > packIn.maxSize

C25_Witness ==
    /\ Returned
    /\ Len(Payloads) = 2
    /\ Len(ModuleArg(Payloads[1])) = 2
    /\ BatchSize(Payloads[1]) < packIn.maxSize
    /\ BatchSize(Payloads[1]) + HexLen(ModuleArg(Payloads[2])[1]) > packIn.maxSize

(***************************************************************************)
(* C26: a returned payload that holds at least one module has batch size   *)
(* at most the limit; a returned payload over the limit holds no module    *)
(* and is the first payload, the metadata blob alone exceeding the limit.  *)
(***************************************************************************)
C26_ModuleBatchesWithinLimit ==
    Returned =>
        \A k \in 1..Len(Payloads) :
            /\ ModuleArg(Payloads[k]) # <<>> =>
                   BatchSize(Payloads[k]) <= packIn.maxSize
            /\ BatchSize(Payloads[k]) > packIn.maxSize =>
                   /\ k = 1
                   /\ IndexArg(Payloads[k]) = <<>>
                   /\ HexLen(MetaArg(Payloads[k])) > packIn.maxSize

C26_Witness ==
    /\ Returned
    /\ Len(Payloads) = 2
    /\ BatchSize(Payloads[1]) > packIn.maxSize
    /\ ModuleArg(Payloads[1]) = <<>>
    /\ Len(ModuleArg(Payloads[2])) = 3
    /\ BatchSize(Payloads[2]) = packIn.maxSize

(***************************************************************************)
(* C27: for a non-empty bundle of n modules none of which is longer than   *)
(* the limit, simulatePayloads returns, with at most n + 1 payloads; only  *)
(* the first payload may have an empty module list, every later payload    *)
(* holds at least one module.                                              *)
(***************************************************************************)
C27_TerminatesWhenModulesFit ==
    (pc # "pack_call" /\ NumModules > 0 /\ OversizedModules = {}) =>
        /\ packOut.returned
        /\ Len(Payloads) <= NumModules + 1
        /\ \A k \in 2..Len(Payloads) : Len(IndexArg(Payloads[k])) >= 1

C27_Witness ==
    /\ Returned
    /\ NumModules = 3
    /\ OversizedModules = {}
    /\ Len(Payloads) = 4
    /\ ModuleArg(Payloads[1]) = <<>>
    /\ \E i \in 1..NumModules : packIn.moduleLens[i] = packIn.maxSize

(***************************************************************************)
(* C28 as claimed: in every object-create run the integer serialized into  *)
(* the seed is strictly greater than the looked-up sequence number.        *)
(***************************************************************************)
C28_SeedAboveSequenceNumber ==
    (CreateRun /\ SeedDerived) => seed.u64 >= sequences + 1

(***************************************************************************)
(* C29: a run with a non-empty --object-address is an object upgrade       *)
(* whatever --deploy-object says: it goes to the object-deploy handler     *)
(* (two builds, the second with that address), looks nothing up, derives   *)
(* no address, and its last call is stage_code_chunk_and_upgrade_object_   *)
(* code with that address as fourth argument.                              *)
(***************************************************************************)
ObjectAddressGiven == cmdline.objectAddress \in {JsStr(a) : a \in ObjectAddresses}

====
